---- MODULE Spec2Model ----
(***************************************************************************)
(* HttpMediaManager (p2p-media-loader-core/lib/http-media-manager.ts):     *)
(* the direct-network download adapter.  The adapter's two maps, the       *)
(* XMLHttpRequest objects it created and the callbacks still pending on    *)
(* them are the state; its public methods and the XHR / validator          *)
(* callbacks are the actions.                                              *)
(*                                                                         *)
(* Every method is written as a function from adapter state to adapter     *)
(* state (a record with the fields of AdapterState below), so that a       *)
(* method calling another (updatePriority -> abort -> download) composes   *)
(* as it does in the source.  An action applies one method to the current  *)
(* state and commits the result.                                           *)
(***************************************************************************)
EXTENDS Integers, Sequences, FiniteSets, Bags, TLC

\* ------------------------------------------------------------------ bounds
\* XMLHttpRequest objects that may be alive (sent, or with a pending
\* validator continuation) at the same time.
MaxXhr == 2
\* performance.now() ranges over 0..MaxTime.
MaxTime == 2
\* event.loaded and event.total of a progress event range over 0..MaxBytes.
MaxBytes == 2
\* progress events delivered to one request.
MaxProgress == 3
\* bytes of a segment's content.
MaxLen == 3
\* previously received pieces handed to download.
MaxPieces == 2
\* 'seeking' events the player emits.
MaxSeeking == 3
\* 'hlsDestroying' events hls.js emits.
MaxDestroying == 2

SegmentIds == {"s1", "s2"}
\* segment.url is the literal manifest URL; the segmentUrlBuilder hook returns
\* either that same URL or a rewritten one.
LiteralUrl == "literal"
Urls == {"literal", "rewritten"}
\* xhr.status values delivered with the load event.
Statuses == {199, 200, 206, 300}
\* values of segment.priority at a call
Priorities == {0, 1}
\* values of the constructor's settings object
SettingsValues ==
    [ httpFailedSegmentTimeout : {1},
      requiredSegmentsPriority : {1},
      skipSegmentBuilderPriority : {0},
      segmentValidator : BOOLEAN,
      segmentUrlBuilder : BOOLEAN,
      httpUseRanges : {TRUE} ]

VARIABLES
    settings,        \* readonly settings (constructor argument)
    now,             \* performance.now()
    xhrRequests,     \* Map<id, {xhr, initialPriority, segmentUrl}>
    failedSegments,  \* Map<id, expiry time>
    xhrs,            \* the XMLHttpRequest objects that still have a callback to run
    call,            \* the latest call or callback, with what it did outside the maps
    progress,        \* one request's progress listener: its closure and its history
    resume,          \* one request's byte range and payload, from download to load
    glue             \* the player glue (initHlsJsEvents): listeners, pending teardown

vars == <<settings, now, xhrRequests, failedSegments, xhrs, call, progress, resume, glue>>

\* What the adapter's methods and completion callbacks leave alone.
aux == <<progress, resume, glue>>

(***************************************************************************)
(* An XMLHttpRequest object is [state, seg, abortedBy, tracked]:           *)
(*   state      "sent" (on the network, a load/error/timeout event will    *)
(*              come) or "validating" (load delivered, the listener is     *)
(*              suspended at `await segmentValidator`);                    *)
(*   seg        the segment its listeners close over;                      *)
(*   abortedBy  which method called xhr.abort() on it after its load       *)
(*              event ("none", "abort", "destroy");                        *)
(*   tracked    whether xhrRequests.get(seg).xhr is this object.           *)
(* Objects that agree on all four behave alike, so xhrs is a bag.          *)
(***************************************************************************)
XhrObjects ==
    [ state : {"sent", "validating"}, seg : SegmentIds,
      abortedBy : {"none", "abort", "destroy"}, tracked : BOOLEAN ]

\* ------------------------------------------------------------ Map helpers
MapSet(m, k, v) == [i \in (DOMAIN m) \cup {k} |-> IF i = k THEN v ELSE m[i]]
MapDelete(m, k) == [i \in (DOMAIN m) \ {k} |-> m[i]]
EmptyMap == [i \in {} |-> 0]

\* The adapter state the methods transform, and what a call does besides:
\* the events it emits, the URL it passes to xhr.open, the value it writes to
\* its argument's segment.requestUrl, the blacklist ids its purge deleted, and
\* whether it throws.
AdapterState ==
    [ xhrRequests |-> xhrRequests,
      failedSegments |-> failedSegments,
      xhrs |-> xhrs,
      events |-> <<>>,
      opened |-> "none",
      requestUrl |-> "none",
      purged |-> {},
      threw |-> FALSE ]

\* The object xhrRequests.get(s).xhr.
trackedXhr(st, s) == CHOOSE x \in BagToSet(st.xhrs) : x.seg = s /\ x.tracked

\* Object x becomes y.
replaceXhr(st, x, y) == [st EXCEPT !.xhrs = (@ (-) SetToBag({x})) (+) SetToBag({y})]

\* this.emit(type, segment, ...): what a listener running now observes: the
\* in-flight set at this moment, and whether xhr.abort() had already been
\* called on the request whose callback emits ("none" also when the emit is
\* not in a request callback).
emit(st, type, s, afterAbort) ==
    [st EXCEPT !.events = Append(@,
        [ type |-> type, seg |-> s, active |-> DOMAIN st.xhrRequests,
          afterAbort |-> afterAbort ])]

\* ---------------------------------------------------------------- queries
isDownloadingIn(st, s) == s \in DOMAIN st.xhrRequests
isDownloading(s) == s \in DOMAIN xhrRequests

isFailedAt(fs, s, t) == s \in DOMAIN fs /\ fs[s] > t
isFailed(s) == isFailedAt(failedSegments, s, now)

getActiveDownloadsCount == Cardinality(DOMAIN xhrRequests)

\* ----------------------------------------------------- XMLHttpRequest
LiveXhrs(st) == BagCardinality(st.xhrs)

\* xhr.abort(): a request still on the network is cancelled and fires only
\* abort/loadend, which have no listener here, so no callback of it runs
\* again; on a request whose load event has already been delivered it cancels
\* nothing, and the validator continuation of that load stays pending.
xhrAbort(st, x, by) ==
    IF x.state = "sent"
    THEN [st EXCEPT !.xhrs = @ (-) SetToBag({x})]
    ELSE replaceXhr(st, x, [x EXCEPT !.abortedBy = by])

\* this.xhrRequests.delete(id): the entry's request object, if it still has
\* callbacks to run, lives on without an entry.
xhrRequestsDelete(st, s) ==
    IF s \in DOMAIN st.xhrRequests
    THEN LET st1 == [st EXCEPT !.xhrRequests = MapDelete(@, s)]
         IN  IF \E x \in BagToSet(st.xhrs) : x.seg = s /\ x.tracked
             THEN replaceXhr(st1, trackedXhr(st, s),
                             [trackedXhr(st, s) EXCEPT !.tracked = FALSE])
             ELSE st1
    ELSE st

\* The callback chain of request x has run to its end (x has lost its entry
\* by then: both ends delete it).
release(st, x) == [st EXCEPT !.xhrs = @ (-) SetToBag({[x EXCEPT !.tracked = FALSE]})]

\* ----------------------------------------------------------- the methods
\* (mutant) the purge with its comparison inverted
cleanTimedOutFailedSegments_inverted(st) ==
    LET fs == st.failedSegments
        candidates == {id \in DOMAIN fs : fs[id] > now}
    IN  [st EXCEPT !.failedSegments = [id \in (DOMAIN fs) \ candidates |-> fs[id]],
                   !.purged = candidates]

cleanTimedOutFailedSegments(st) ==
    LET fs == st.failedSegments
        candidates == {id \in DOMAIN fs : fs[id] < now}
    IN  [st EXCEPT !.failedSegments = [id \in (DOMAIN fs) \ candidates |-> fs[id]],
                   !.purged = candidates]

\* What settings.segmentUrlBuilder(segment) may return ("none": no hook to call).
HookUrls == IF settings.segmentUrlBuilder THEN Urls ELSE {"none"}

buildSegmentUrl(hookUrl) ==
    IF settings.segmentUrlBuilder THEN hookUrl ELSE LiteralUrl

\* The URL download requests: segment.url for an urgent segment, else
\* whatever buildSegmentUrl gives.
\* (mutant) the threshold itself takes the rewritten URL
resolveSegmentUrl_strict(p, hookUrl) ==
    IF p < settings.skipSegmentBuilderPriority
    THEN LiteralUrl
    ELSE buildSegmentUrl(hookUrl)

resolveSegmentUrl(p, hookUrl) ==
    IF p <= settings.skipSegmentBuilderPriority
    THEN LiteralUrl
    ELSE buildSegmentUrl(hookUrl)

\* download(segment): p is segment.priority at the call, hookUrl what the
\* segmentUrlBuilder hook returns for the segment.
\* download past its early return: purge, segment-start-load, URL, request.
startRequest(st, s, p, hookUrl) ==
    LET st1 == emit(cleanTimedOutFailedSegments(st), "segment-start-load", s, "none")
        segmentUrl == resolveSegmentUrl(p, hookUrl)
        xhr == [state |-> "sent", seg |-> s, abortedBy |-> "none", tracked |-> TRUE]
    IN  [st1 EXCEPT
           !.requestUrl = segmentUrl,
           !.opened = segmentUrl,
           !.xhrs = @ (+) SetToBag({xhr}),
           !.xhrRequests = MapSet(@, s,
               [initialPriority |-> p, segmentUrl |-> segmentUrl])]

\* (mutant) download that refuses a blacklisted segment
download_rejectsFailed(st, s, p, hookUrl) ==
    IF isDownloadingIn(st, s) \/ isFailedAt(st.failedSegments, s, now)
    THEN st
    ELSE startRequest(st, s, p, hookUrl)

\* (mutant) download without its early return
download_noGuard(st, s, p, hookUrl) == startRequest(st, s, p, hookUrl)

download(st, s, p, hookUrl) ==
    IF isDownloadingIn(st, s)
    THEN st
    ELSE startRequest(st, s, p, hookUrl)

\* (mutant) abort that gives up on a request whose response has arrived
abort_onlyOnNetwork(st, s) ==
    IF s \in DOMAIN st.xhrRequests /\ trackedXhr(st, s).state = "sent"
    THEN xhrRequestsDelete(xhrAbort(st, trackedXhr(st, s), "abort"), s)
    ELSE st

abort(st, s) ==
    IF s \in DOMAIN st.xhrRequests
    THEN LET x == trackedXhr(st, s)
             st1 == xhrAbort(st, x, "abort")
         IN  xhrRequestsDelete(st1, s)
    ELSE st

\* (mutant) the restart decided on requiredSegmentsPriority
updatePriorityRestarts_required(st, s, p) ==
    /\ p <= settings.requiredSegmentsPriority
    /\ st.xhrRequests[s].initialPriority > settings.requiredSegmentsPriority
    /\ st.xhrRequests[s].segmentUrl # LiteralUrl

updatePriorityRestarts(st, s, p) ==
    /\ p <= settings.skipSegmentBuilderPriority
    /\ st.xhrRequests[s].initialPriority > settings.skipSegmentBuilderPriority
    /\ st.xhrRequests[s].segmentUrl # LiteralUrl

\* (mutant) updatePriority that swallows the missing request
updatePriority_silent(st, s, p, hookUrl) ==
    IF s \notin DOMAIN st.xhrRequests
    THEN st
    ELSE IF updatePriorityRestarts(st, s, p)
    THEN download(abort(st, s), s, p, hookUrl)
    ELSE st

updatePriority(st, s, p, hookUrl) ==
    IF s \notin DOMAIN st.xhrRequests
    THEN [st EXCEPT !.threw = TRUE]
    ELSE IF updatePriorityRestarts(st, s, p)
    THEN download(abort(st, s), s, p, hookUrl)
    ELSE st

\* this.xhrRequests.forEach((request) => request.xhr.abort())
RECURSIVE abortAll(_, _)
abortAll(st, ids) ==
    IF ids = {}
    THEN st
    ELSE LET id == CHOOSE i \in ids : TRUE
         IN  abortAll(xhrAbort(st, trackedXhr(st, id), "destroy"), ids \ {id})

\* this.xhrRequests.clear()
RECURSIVE clear(_, _)
clear(st, ids) ==
    IF ids = {}
    THEN st
    ELSE LET id == CHOOSE i \in ids : TRUE
         IN  clear(xhrRequestsDelete(st, id), ids \ {id})

\* (mutant) destroy that clears the map without aborting the requests
destroy_noAbort(st) == clear(st, DOMAIN st.xhrRequests)

destroy(st) ==
    LET st1 == abortAll(st, DOMAIN st.xhrRequests)
    IN  clear(st1, DOMAIN st1.xhrRequests)

\* (mutant) a failure that is not blacklisted
segmentFailure_noBlacklist(st, s, x) ==
    emit(xhrRequestsDelete(st, s), "segment-error", s, x.abortedBy)

segmentFailure(st, s, x) ==
    emit([xhrRequestsDelete(st, s) EXCEPT
            !.failedSegments = MapSet(@, s, now + settings.httpFailedSegmentTimeout)],
         "segment-error", s, x.abortedBy)

\* (mutant) segment-loaded emitted before the entry is dropped
segmentAccepted_emitFirst(st, s, x) ==
    xhrRequestsDelete(emit(st, "segment-loaded", s, x.abortedBy), s)

\* (mutant) a success that also forgets the segment's earlier failure
segmentAccepted_clearsFailed(st, s, x) ==
    emit([xhrRequestsDelete(st, s) EXCEPT !.failedSegments = MapDelete(@, s)],
         "segment-loaded", s, x.abortedBy)

\* segmentDownloadFinished after the validator (if any) has accepted.
segmentAccepted(st, s, x) ==
    emit(xhrRequestsDelete(st, s), "segment-loaded", s, x.abortedBy)

\* segmentDownloadFinished up to its await: without a validator it finishes at
\* once; with one (it returns a promise) the listener is suspended, and the
\* rest runs when that promise settles.
segmentDownloadFinished(st, s, x) ==
    IF ~settings.segmentValidator
    THEN release(segmentAccepted(st, s, x), x)
    ELSE replaceXhr(st, x, [x EXCEPT !.state = "validating"])

\* ... and its continuation, when the awaited validator promise settles.
validatorSettled(st, x, accepted) ==
    IF accepted
    THEN release(segmentAccepted(st, x.seg, x), x)
    ELSE release(segmentFailure(st, x.seg, x), x)

isSuccessStatus(status) == ~(status < 200 \/ status >= 300)

onLoad(st, x, status) ==
    IF ~isSuccessStatus(status)
    THEN release(segmentFailure(st, x.seg, x), x)
    ELSE segmentDownloadFinished(st, x.seg, x)

onError(st, x) == release(segmentFailure(st, x.seg, x), x)

onTimeout(st, x) == release(segmentFailure(st, x.seg, x), x)

\* ----------------------------------------------- the progress listener
\* A ProgressEvent of XMLHttpRequest: loaded is cumulative; total is the
\* content length when lengthComputable, and 0 otherwise.
ProgressEvents ==
    {e \in [loaded : 0..MaxBytes, lengthComputable : BOOLEAN, total : 0..MaxBytes] :
        IF e.lengthComputable THEN e.total >= e.loaded ELSE e.total = 0}

\* setupXhrEvents: `let prevBytesLoaded = 0`, nothing emitted or delivered yet.
ProgressInit == [prevBytesLoaded |-> 0, emitted |-> <<>>, notifications |-> <<>>]

\* (mutant) the total size reported only the first time it is known
onProgress_sizeOnce(li, event) ==
    LET bytesLoaded == event.loaded - li.prevBytesLoaded
        e1 == Append(li.emitted, [type |-> "bytes-downloaded", value |-> bytesLoaded])
        sized == \E i \in 1..Len(li.emitted) : li.emitted[i].type = "segment-size"
    IN  [li EXCEPT
           !.prevBytesLoaded = event.loaded,
           !.emitted = IF event.lengthComputable /\ ~sized
                       THEN Append(e1, [type |-> "segment-size", value |-> event.total])
                       ELSE e1]

\* The "progress" listener of a request; li.emitted collects what it emits.
onProgress(li, event) ==
    LET bytesLoaded == event.loaded - li.prevBytesLoaded
        e1 == Append(li.emitted, [type |-> "bytes-downloaded", value |-> bytesLoaded])
    IN  [li EXCEPT
           !.prevBytesLoaded = event.loaded,
           !.emitted = IF event.lengthComputable
                       THEN Append(e1, [type |-> "segment-size", value |-> event.total])
                       ELSE e1]

\* ------------------------------------------- byte ranges and the payload
Bytes == {0, 1}
\* The bytes of the resource behind segment.url.
Contents == UNION {[1..n -> Bytes] : n \in 1..MaxLen}
\* downloadedPieces: undefined, or an array of ArrayBuffers.
Undefined == [defined |-> FALSE, list |-> <<>>]
\* The arrays of at most MaxPieces consecutive chunks of a prefix of content.
PieceLists(content) ==
    UNION {
      { [i \in 1..n |-> SubSeq(content, (IF i = 1 THEN 0 ELSE c[i - 1]) + 1, c[i])] :
          c \in {d \in [1..n -> 0..Len(content)] :
                   \A i \in 1..n : i < n => d[i] <= d[i + 1]} } :
      n \in 0..MaxPieces }
\* segment.range: absent (<<>>), or the Range header value of a byte interval.
NoRange == <<>>
SegmentRanges(content) ==
    {NoRange} \cup
    {<<"bytes=", a, "-", b>> : a \in 0..(Len(content) - 1), b \in {Len(content) - 1}}

\* for (const piece of downloadedPieces) bytesDownloaded += piece.byteLength
RECURSIVE bytesDownloadedOf(_)
bytesDownloadedOf(pieces) ==
    IF pieces = <<>> THEN 0
    ELSE Len(Head(pieces)) + bytesDownloadedOf(Tail(pieces))

\* download, lines 67-81: the Range header it sets (<<>>: none) and the
\* downloadedPieces its load listener closes over.
rangeSetup(range, downloadedPieces) ==
    IF range # NoRange
    THEN [header |-> range, pieces |-> Undefined]
    ELSE IF downloadedPieces.defined /\ settings.httpUseRanges
    THEN [header |-> <<"bytes=", bytesDownloadedOf(downloadedPieces.list), "-">>,
          pieces |-> downloadedPieces]
    ELSE [header |-> <<>>, pieces |-> Undefined]

\* Uint8Array.prototype.set(src, offset), buffers indexed from 1.
typedArraySet(buf, src, offset) ==
    [i \in 1..Len(buf) |->
        IF i > offset /\ i <= offset + Len(src) THEN src[i - offset] ELSE buf[i]]

\* for (const piece of downloadedPieces) { segmentData.set(piece, offset); offset += ... }
RECURSIVE setPieces(_, _, _)
setPieces(segmentData, pieces, offset) ==
    IF pieces = <<>>
    THEN [segmentData |-> segmentData, offset |-> offset]
    ELSE setPieces(typedArraySet(segmentData, Head(pieces), offset), Tail(pieces),
                   offset + Len(Head(pieces)))

\* (mutant) the new bytes written at the start of the buffer
reassemble_noOffset(pieces, data) ==
    LET bytesDownloaded == bytesDownloadedOf(pieces)
        segmentData == [i \in 1..(bytesDownloaded + Len(data)) |-> 0]
        placed == setPieces(segmentData, pieces, 0)
    IN  typedArraySet(placed.segmentData, data, 0)

\* load listener, lines 168-182.
reassemble(pieces, data) ==
    LET bytesDownloaded == bytesDownloadedOf(pieces)
        segmentData == [i \in 1..(bytesDownloaded + Len(data)) |-> 0]
        placed == setPieces(segmentData, pieces, 0)
    IN  typedArraySet(placed.segmentData, data, placed.offset)

\* load listener, lines 165-185: the data handed to segmentDownloadFinished
\* (and by it to the validator and to segment-loaded).
loadData(pieces, status, response) ==
    IF pieces.defined /\ status = 206
    THEN reassemble(pieces.list, response)
    ELSE response

\* What a server answers to a GET with the Range header `header`: the whole
\* resource with 200 (always allowed), or with 206 the bytes the header asks for.
ServerResponses(content, header) ==
    {[status |-> 200, response |-> content]} \cup
    IF header = <<>> THEN {}
    ELSE IF Len(header) = 3
    THEN {[status |-> 206, response |-> SubSeq(content, header[2] + 1, Len(content))]}
    ELSE {[status |-> 206, response |-> SubSeq(content, header[2] + 1, header[4] + 1)]}

ResumeInit ==
    [ phase |-> "idle", content |-> <<>>, range |-> NoRange, downloadedPieces |-> Undefined,
      header |-> <<>>, pieces |-> Undefined, status |-> 0, response |-> <<>>, data |-> <<>> ]

\* -------------------------------------------------------- the player glue
\* initHlsJsEvents has run: onSeek is registered on the player once, no
\* teardown is pending.  seekListeners: registrations of onSeek on 'seeking';
\* pending: engine.destroy() promises not yet settled; last: the latest event
\* with the engine methods its handlers invoked; tornDown, seekings,
\* seekingsBeforeTeardown and abortCalls record the history.
GlueInit ==
    [ seekListeners |-> 1, pending |-> 0, started |-> 0, tornDown |-> FALSE,
      seekings |-> 0, seekingsBeforeTeardown |-> 0, abortCalls |-> 0,
      last |-> [event |-> "init", engineCalls |-> <<>>, tornDown |-> FALSE] ]

\* An event is delivered: nothing invoked on the engine yet.
eventDelivered(g, event) ==
    [g EXCEPT !.last = [event |-> event, engineCalls |-> <<>>, tornDown |-> g.tornDown]]

engineCall(g, method) ==
    [g EXCEPT !.last.engineCalls = Append(@, method),
              !.abortCalls = IF method = "abortCurrentRequest" THEN @ + 1 ELSE @]

onSeek(g) == engineCall(g, "abortCurrentRequest")

\* The player emits 'seeking': every registered listener runs.
RECURSIVE emitSeeking(_, _)
emitSeeking(g, listeners) ==
    IF listeners = 0 THEN g ELSE emitSeeking(onSeek(g), listeners - 1)

\* hlsFragChanged handler
onHlsFragChanged(g) == engineCall(g, "setPlayingSegment")

\* hlsError handler
onHlsError(g, details, hasMediaElement) ==
    IF details = "bufferStalledError" /\ hasMediaElement
    THEN engineCall(g, "setPlayingSegmentByCurrentTime")
    ELSE g

\* (mutant) the seeking handler detached before the destroy is awaited
onHlsDestroying_detachFirst(g) ==
    [engineCall(g, "destroy") EXCEPT !.pending = @ + 1, !.started = @ + 1,
                                     !.seekListeners = 0]

\* hlsDestroying handler up to its await
onHlsDestroying(g) ==
    [engineCall(g, "destroy") EXCEPT !.pending = @ + 1, !.started = @ + 1]

\* ... and after it: player.off on success, console.error on rejection.
destroySettled(g, resolved) ==
    IF resolved
    THEN [g EXCEPT !.pending = @ - 1, !.seekListeners = 0]
    ELSE [g EXCEPT !.pending = @ - 1]

\* ------------------------------------------------------------ the actions
\* The record of a call: which method or callback ran, whether it found its
\* segment in xhrRequests on entry, whether it threw, the events it emitted, in
\* order, the URL it opened, the segment.requestUrl it wrote and the blacklist
\* ids its purge deleted.
CallRecord(op, found, st) ==
    [ op |-> op, found |-> found, threw |-> st.threw, events |-> st.events,
      opened |-> st.opened, requestUrl |-> st.requestUrl, purged |-> st.purged ]

\* The call `op` took the adapter to state st; found: what the method's lookup
\* of its segment in xhrRequests gave on entry (FALSE for a callback, which
\* makes no lookup).
Commit(op, found, st) ==
    /\ xhrRequests' = st.xhrRequests
    /\ failedSegments' = st.failedSegments
    /\ xhrs' = st.xhrs
    /\ call' = CallRecord(op, found, st)
    /\ UNCHANGED <<settings, now>>
    /\ UNCHANGED aux

Init ==
    /\ settings \in SettingsValues
    /\ now = 0
    /\ xhrRequests = EmptyMap
    /\ failedSegments = EmptyMap
    /\ xhrs = EmptyBag
    /\ call = [ op |-> "new", found |-> FALSE, threw |-> FALSE, events |-> <<>>,
                opened |-> "none", requestUrl |-> "none", purged |-> {} ]
    /\ progress = ProgressInit
    /\ resume = ResumeInit
    /\ glue = GlueInit

Download(s, p, hookUrl) ==
    /\ isDownloading(s) \/ LiveXhrs(AdapterState) < MaxXhr
    /\ \E st \in {download(AdapterState, s, p, hookUrl)} : Commit("download", isDownloading(s), st)

UpdatePriority(s, p, hookUrl) ==
    /\ IF isDownloading(s)
       THEN updatePriorityRestarts(AdapterState, s, p) => LiveXhrs(abort(AdapterState, s)) < MaxXhr
       ELSE TRUE
    /\ \E st \in {updatePriority(AdapterState, s, p, hookUrl)} :
           Commit("updatePriority", isDownloading(s), st)

Abort(s) ==
    \E st \in {abort(AdapterState, s)} : Commit("abort", isDownloading(s), st)

Destroy ==
    \E st \in {destroy(AdapterState)} : Commit("destroy", FALSE, st)

\* xhr "load" event of a request that is on the network.
XhrLoad(x, status) ==
    /\ x.state = "sent"
    /\ \E st \in {onLoad(AdapterState, x, status)} :
           Commit("load", FALSE, st)

XhrError(x) ==
    /\ x.state = "sent"
    /\ \E st \in {onError(AdapterState, x)} : Commit("error", FALSE, st)

XhrTimeout(x) ==
    /\ x.state = "sent"
    /\ \E st \in {onTimeout(AdapterState, x)} : Commit("timeout", FALSE, st)

\* The awaited validator promise of request x resolves / rejects.
ValidatorResolves(x) ==
    /\ x.state = "validating"
    /\ \E st \in {validatorSettled(AdapterState, x, TRUE)} :
           Commit("validatorResolved", FALSE, st)

ValidatorRejects(x) ==
    /\ x.state = "validating"
    /\ \E st \in {validatorSettled(AdapterState, x, FALSE)} :
           Commit("validatorRejected", FALSE, st)

\* performance.now() advances.
Tick ==
    /\ now < MaxTime
    /\ now' = now + 1
    /\ call' = [ op |-> "tick", found |-> FALSE, threw |-> FALSE, events |-> <<>>,
                 opened |-> "none", requestUrl |-> "none", purged |-> {} ]
    /\ UNCHANGED <<settings, xhrRequests, failedSegments, xhrs>>
    /\ UNCHANGED aux

Next ==
    \/ \E s \in SegmentIds, p \in Priorities, hookUrl \in HookUrls : Download(s, p, hookUrl)
    \/ \E s \in SegmentIds, p \in Priorities, hookUrl \in HookUrls :
           UpdatePriority(s, p, hookUrl)
    \/ \E s \in SegmentIds : Abort(s)
    \/ Destroy
    \/ \E x \in BagToSet(xhrs), status \in Statuses : XhrLoad(x, status)
    \/ \E x \in BagToSet(xhrs) : XhrError(x)
    \/ \E x \in BagToSet(xhrs) : XhrTimeout(x)
    \/ \E x \in BagToSet(xhrs) : ValidatorResolves(x)
    \/ \E x \in BagToSet(xhrs) : ValidatorRejects(x)
    \/ Tick

Spec == Init /\ [][Next]_vars

\* ------------------------------------------- the adapter under its Scheduler
\* The Scheduler's admission control for the direct transport: the configured
\* ceiling, and the check it makes, on the adapter's active count, before it
\* asks the adapter for a new download.
simultaneousHttpDownloads == 1

AdmitDownload(s, p, hookUrl) ==
    /\ ~isDownloading(s)
    /\ getActiveDownloadsCount < simultaneousHttpDownloads
    /\ Download(s, p, hookUrl)

NextCeiling ==
    \/ \E s \in SegmentIds, p \in Priorities, hookUrl \in HookUrls :
           AdmitDownload(s, p, hookUrl)
    \/ \E s \in SegmentIds, p \in Priorities, hookUrl \in HookUrls :
           UpdatePriority(s, p, hookUrl)
    \/ \E s \in SegmentIds : Abort(s)
    \/ Destroy
    \/ \E x \in BagToSet(xhrs), status \in Statuses : XhrLoad(x, status)
    \/ \E x \in BagToSet(xhrs) : XhrError(x)
    \/ \E x \in BagToSet(xhrs) : XhrTimeout(x)
    \/ \E x \in BagToSet(xhrs) : ValidatorResolves(x)
    \/ \E x \in BagToSet(xhrs) : ValidatorRejects(x)
    \/ Tick

SpecCeiling == Init /\ [][NextCeiling]_vars

\* ------------------------------------------ one request's progress events
\* The transport delivers a progress event to the request's listener.
XhrProgress(event) ==
    /\ Len(progress.notifications) < MaxProgress
    /\ event.loaded >= progress.prevBytesLoaded
    /\ progress' = [onProgress(progress, event) EXCEPT
                       !.notifications = Append(@, event)]
    /\ UNCHANGED <<settings, now, xhrRequests, failedSegments, xhrs, call, resume, glue>>

NextProgress == \E event \in ProgressEvents : XhrProgress(event)

SpecProgress == Init /\ [][NextProgress]_vars

\* --------------------------------------- one request's range and payload
ResumeSettingsValues ==
    [ httpFailedSegmentTimeout : {1},
      requiredSegmentsPriority : {1},
      skipSegmentBuilderPriority : {0},
      segmentValidator : {FALSE},
      segmentUrlBuilder : {FALSE},
      httpUseRanges : BOOLEAN ]

InitResume ==
    /\ settings \in ResumeSettingsValues
    /\ now = 0
    /\ xhrRequests = EmptyMap
    /\ failedSegments = EmptyMap
    /\ xhrs = EmptyBag
    /\ call = [ op |-> "new", found |-> FALSE, threw |-> FALSE, events |-> <<>>,
                opened |-> "none", requestUrl |-> "none", purged |-> {} ]
    /\ progress = ProgressInit
    /\ resume = ResumeInit
    /\ glue = GlueInit

\* download(segment, downloadedPieces) as far as the Range header goes.
ResumeDownload(content, range, downloadedPieces) ==
    /\ resume.phase = "idle"
    /\ LET setup == rangeSetup(range, downloadedPieces)
       IN  resume' = [resume EXCEPT
                        !.phase = "sent", !.content = content, !.range = range,
                        !.downloadedPieces = downloadedPieces,
                        !.header = setup.header, !.pieces = setup.pieces]
    /\ UNCHANGED <<settings, now, xhrRequests, failedSegments, xhrs, call, progress, glue>>

\* The load event with a success status: the payload is put together.
ResumeLoad(status, response) ==
    /\ resume.phase = "sent"
    /\ [status |-> status, response |-> response]
           \in ServerResponses(resume.content, resume.header)
    /\ resume' = [resume EXCEPT
                     !.phase = "loaded", !.status = status, !.response = response,
                     !.data = loadData(resume.pieces, status, response)]
    /\ UNCHANGED <<settings, now, xhrRequests, failedSegments, xhrs, call, progress, glue>>

NextResume ==
    \/ \E content \in Contents :
         \E range \in SegmentRanges(content),
            downloadedPieces \in {Undefined} \cup
               {[defined |-> TRUE, list |-> l] : l \in PieceLists(content)} :
            ResumeDownload(content, range, downloadedPieces)
    \/ \E r \in ServerResponses(resume.content, resume.header) :
         ResumeLoad(r.status, r.response)

SpecResume == InitResume /\ [][NextResume]_vars

\* ------------------------------------------------- the player glue's events
adapterVars == <<settings, now, xhrRequests, failedSegments, xhrs, call, progress, resume>>

Seeking ==
    /\ glue.seekings < MaxSeeking
    /\ glue' = [emitSeeking(eventDelivered(glue, "seeking"), glue.seekListeners) EXCEPT
                   !.seekings = @ + 1,
                   !.seekingsBeforeTeardown = IF glue.tornDown THEN @ ELSE @ + 1]
    /\ UNCHANGED adapterVars

HlsFragChanged ==
    /\ glue' = onHlsFragChanged(eventDelivered(glue, "hlsFragChanged"))
    /\ UNCHANGED adapterVars

HlsError(details, hasMediaElement) ==
    /\ glue' = onHlsError(eventDelivered(glue, "hlsError"), details, hasMediaElement)
    /\ UNCHANGED adapterVars

HlsDestroying ==
    /\ glue.started < MaxDestroying
    /\ glue' = onHlsDestroying(eventDelivered(glue, "hlsDestroying"))
    /\ UNCHANGED adapterVars

\* A pending engine.destroy() promise resolves / rejects.
EngineDestroyResolves ==
    /\ glue.pending > 0
    /\ glue' = [destroySettled(eventDelivered(glue, "destroyResolved"), TRUE) EXCEPT
                   !.tornDown = TRUE]
    /\ UNCHANGED adapterVars

EngineDestroyRejects ==
    /\ glue.pending > 0
    /\ glue' = destroySettled(eventDelivered(glue, "destroyRejected"), FALSE)
    /\ UNCHANGED adapterVars

NextGlue ==
    \/ Seeking
    \/ HlsFragChanged
    \/ \E details \in {"bufferStalledError", "fragLoadError"}, hasMediaElement \in BOOLEAN :
         HlsError(details, hasMediaElement)
    \/ HlsDestroying
    \/ EngineDestroyResolves
    \/ EngineDestroyRejects

SpecGlue == Init /\ [][NextGlue]_vars

\* ------------------------------------------------------------------ claims
\* Steps that are a failure of request x: a load with a status outside
\* 200..299, a transport error, a timeout, a validator rejection.
FailureOps == {"load", "error", "timeout", "validatorRejected"}
FailureOf(x) ==
    \/ \E status \in Statuses : (status < 200 \/ status > 299) /\ XhrLoad(x, status)
    \/ XhrError(x)
    \/ XhrTimeout(x)
    \/ ValidatorRejects(x)

EventTypes(c) == {c.events[i].type : i \in 1..Len(c.events)}
TerminalEvents(c) ==
    {c.events[i] : i \in {j \in 1..Len(c.events) :
        c.events[j].type \in {"segment-loaded", "segment-error"}}}

\* C1: once abort(S) has been called on a request for S, no segment-loaded and
\* no segment-error is emitted by that request (here: no terminal event is
\* emitted from a callback of a request on which abort() had been called).
C1_NoEventAfterAbort ==
    \A e \in TerminalEvents(call) : e.afterAbort # "abort"

\* C2: abort(S) leaves S out of the in-flight set, lowers the active count by
\* one exactly when S was in flight, never touches the blacklist and emits
\* nothing; when S was not in flight it changes nothing at all; a second
\* abort(S) changes nothing the first did not.
C2_AbortReleasesSlot ==
    /\ [](\A s \in SegmentIds :
            abort(abort(AdapterState, s), s) = abort(AdapterState, s))
    /\ [][call'.op = "abort" => \A s \in SegmentIds : Abort(s) =>
            /\ s \notin DOMAIN xhrRequests'
            /\ Cardinality(DOMAIN xhrRequests') =
                 Cardinality(DOMAIN xhrRequests) - (IF isDownloading(s) THEN 1 ELSE 0)
            /\ \A o \in SegmentIds \ {s} :
                 /\ (o \in DOMAIN xhrRequests) = (o \in DOMAIN xhrRequests')
                 /\ o \in DOMAIN xhrRequests => xhrRequests'[o] = xhrRequests[o]
            /\ failedSegments' = failedSegments
            /\ call'.events = <<>> /\ ~call'.threw
            /\ ~isDownloading(s) => xhrRequests' = xhrRequests /\ xhrs' = xhrs]_vars

C2_Witness == call.op = "abort" /\ call.found /\ xhrRequests # EmptyMap

ErrorEventFor(c, s) ==
    \E e \in TerminalEvents(c) : e.type = "segment-error" /\ e.seg = s

\* C3: every failure of a request for S takes S out of the in-flight set,
\* sets S's blacklist entry to the failure time + httpFailedSegmentTimeout,
\* emits exactly segment-error and ends the request (so it never emits
\* segment-loaded); an entry is only made by a failure and stays as it is
\* until its expiry unless S fails again; isFailed(S) is true exactly while
\* the time is strictly before the entry's expiry.
C3_FailureBlacklists ==
    /\ [](\A s \in SegmentIds :
            isFailed(s) <=> (s \in DOMAIN failedSegments /\ now < failedSegments[s]))
    /\ [][/\ call'.op \in FailureOps => \A x \in BagToSet(xhrs) : FailureOf(x) =>
               /\ x.seg \notin DOMAIN xhrRequests'
               /\ x.seg \in DOMAIN failedSegments'
               /\ failedSegments'[x.seg] = now + settings.httpFailedSegmentTimeout
               /\ Len(call'.events) = 1
               /\ call'.events[1].type = "segment-error"
               /\ call'.events[1].seg = x.seg
               /\ BagCardinality(xhrs') = BagCardinality(xhrs) - 1
          /\ \A s \in SegmentIds :
               /\ (s \in DOMAIN failedSegments /\ failedSegments[s] >= now) =>
                     /\ s \in DOMAIN failedSegments'
                     /\ failedSegments'[s] = failedSegments[s] \/ ErrorEventFor(call', s)
               /\ (s \notin DOMAIN failedSegments /\ s \in DOMAIN failedSegments') =>
                     ErrorEventFor(call', s)]_vars

C3_Witness ==
    /\ call.op \in FailureOps
    /\ \E s \in SegmentIds : ErrorEventFor(call, s) /\ isFailed(s)

\* C4 as stated: a download(S) made while S is blacklisted starts no request.
C4_RepeatDownloadRejected ==
    [][call'.op = "download" =>
        \A s \in SegmentIds, p \in Priorities, hookUrl \in HookUrls :
          (isFailed(s) /\ Download(s, p, hookUrl)) =>
              (xhrs' = xhrs /\ xhrRequests' = xhrRequests /\ call'.events = <<>>)]_vars

\* C4 amended: download(S) does not consult the blacklist: whenever S is not in
\* flight it starts a request for S, blacklisted or not, and leaves isFailed(S)
\* as it was (isFailed is what tells a caller to hold back until the timeout
\* has elapsed); once the timeout has elapsed isFailed(S) is false.
C4_DownloadIgnoresBlacklist ==
    /\ [](\A s \in SegmentIds :
            (s \in DOMAIN failedSegments /\ now >= failedSegments[s]) => ~isFailed(s))
    /\ [][call'.op = "download" =>
          \A s \in SegmentIds, p \in Priorities, hookUrl \in HookUrls :
            (~isDownloading(s) /\ Download(s, p, hookUrl)) =>
                /\ s \in DOMAIN xhrRequests'
                /\ BagCardinality(xhrs') = BagCardinality(xhrs) + 1
                /\ [state |-> "sent", seg |-> s, abortedBy |-> "none", tracked |-> TRUE]
                       \in BagToSet(xhrs')
                /\ EventTypes(call') = {"segment-start-load"}
                /\ isFailedAt(failedSegments', s, now') = isFailed(s)]_vars

C4_Witness ==
    /\ call.op = "download" /\ ~call.found
    /\ \E s \in SegmentIds :
         /\ isFailed(s)
         /\ Len(call.events) = 1 /\ call.events[1].seg = s
         /\ s \in DOMAIN xhrRequests

\* C5: whenever segment-loaded is emitted for S, S is not in the in-flight set
\* a listener observes at that moment (so it is not counted either).
C5_DroppedBeforeLoaded ==
    \A e \in TerminalEvents(call) :
        e.type = "segment-loaded" =>
            (e.seg \notin e.active /\ e.seg \notin DOMAIN xhrRequests)

C5_Witness ==
    \E e \in TerminalEvents(call) : e.type = "segment-loaded"

\* C6: while the validator of a request for S is awaited (and nobody has
\* aborted that request), S is in the in-flight set.
C6_ValidatingStaysDownloading ==
    \A x \in BagToSet(xhrs) :
        (x.state = "validating" /\ x.abortedBy = "none") => isDownloading(x.seg)

\* C7 as stated: updatePriority restarts exactly when the request was started
\* above requiredSegmentsPriority, the segment is now at or below it, and the
\* in-flight URL is not the literal URL.
C7_RestartOnRequiredPriority ==
    [][call'.op = "updatePriority" =>
        \A s \in SegmentIds, p \in Priorities, hookUrl \in HookUrls :
          (isDownloading(s) /\ UpdatePriority(s, p, hookUrl)) =>
              (( /\ xhrRequests[s].initialPriority > settings.requiredSegmentsPriority
                 /\ p <= settings.requiredSegmentsPriority
                 /\ xhrRequests[s].segmentUrl # LiteralUrl )
               <=> call'.opened # "none")]_vars

\* C7 amended: the threshold is skipSegmentBuilderPriority.  updatePriority
\* restarts exactly when the request was started above it, the segment is now
\* at or below it, and the in-flight URL is not the literal URL; after a
\* restart the entry of S is a new request for the literal URL at the new
\* priority, it is the only request S's entry refers to, and the old request
\* has been aborted; otherwise nothing changes.
C7_RestartOnSkipPriority ==
    [][call'.op = "updatePriority" =>
        \A s \in SegmentIds, p \in Priorities, hookUrl \in HookUrls :
          (isDownloading(s) /\ UpdatePriority(s, p, hookUrl)) =>
              IF /\ xhrRequests[s].initialPriority > settings.skipSegmentBuilderPriority
                 /\ p <= settings.skipSegmentBuilderPriority
                 /\ xhrRequests[s].segmentUrl # LiteralUrl
              THEN /\ xhrRequests'[s] = [initialPriority |-> p, segmentUrl |-> LiteralUrl]
                   /\ call'.opened = LiteralUrl
                   /\ EventTypes(call') = {"segment-start-load"}
                   /\ {x \in BagToSet(xhrs') : x.seg = s /\ x.tracked} =
                        {[state |-> "sent", seg |-> s, abortedBy |-> "none",
                          tracked |-> TRUE]}
                   /\ CopiesIn([state |-> "sent", seg |-> s, abortedBy |-> "none",
                                tracked |-> TRUE], xhrs') = 1
                   /\ \A x \in BagToSet(xhrs) : (x.seg = s /\ x.tracked) =>
                        IF x.state = "sent"
                        THEN BagCardinality(xhrs') = BagCardinality(xhrs)
                        ELSE [x EXCEPT !.abortedBy = "abort", !.tracked = FALSE]
                                \in BagToSet(xhrs')
              ELSE /\ xhrRequests' = xhrRequests
                   /\ xhrs' = xhrs
                   /\ failedSegments' = failedSegments
                   /\ call'.events = <<>> /\ call'.opened = "none" /\ ~call'.threw]_vars

C7_Witness ==
    call.op = "updatePriority" /\ call.found /\ call.opened = LiteralUrl

\* C8: updatePriority(S) with no in-flight request for S throws, changes
\* neither map nor any request, and emits nothing.
C8_UpdatePriorityThrows ==
    [][call'.op = "updatePriority" =>
        \A s \in SegmentIds, p \in Priorities, hookUrl \in HookUrls :
          (~isDownloading(s) /\ UpdatePriority(s, p, hookUrl)) =>
              /\ call'.threw
              /\ xhrRequests' = xhrRequests
              /\ failedSegments' = failedSegments
              /\ xhrs' = xhrs
              /\ call'.events = <<>> /\ call'.opened = "none"]_vars

C8_Witness == call.op = "updatePriority" /\ ~call.found /\ call.threw

\* C9: a request started by download at a priority <= skipSegmentBuilderPriority
\* is for the literal URL whatever the hook returns; above it the URL is the
\* hook's result, or the literal URL when no hook is configured; the URL
\* opened, the entry's segmentUrl and segment.requestUrl are the same.
C9_UrlChoice ==
    [][call'.op = "download" =>
        \A s \in SegmentIds, p \in Priorities, hookUrl \in HookUrls :
          (~isDownloading(s) /\ Download(s, p, hookUrl)) =>
              /\ call'.opened =
                   IF p <= settings.skipSegmentBuilderPriority THEN LiteralUrl
                   ELSE IF settings.segmentUrlBuilder THEN hookUrl
                   ELSE LiteralUrl
              /\ xhrRequests'[s].segmentUrl = call'.opened
              /\ call'.requestUrl = call'.opened
              /\ xhrRequests'[s].initialPriority = p]_vars

C9_Witness ==
    /\ call.op = "download" /\ call.opened = "rewritten"
    /\ \E s \in DOMAIN xhrRequests : xhrRequests[s].segmentUrl = "rewritten"

\* C10 as stated: after destroy() nothing is in flight and the blacklist is
\* empty.
C10_DestroyClearsEverything ==
    call.op = "destroy" =>
        /\ xhrRequests = EmptyMap
        /\ failedSegments = EmptyMap
        /\ \A s \in SegmentIds : ~isFailed(s)

\* C10 amended: destroy() aborts the request of every entry and empties the
\* in-flight map (isDownloading false for every segment, active count 0); it
\* emits nothing and leaves the failed-segment blacklist as it was.
C10_DestroyClearsInFlight ==
    [][call'.op = "destroy" =>
          /\ xhrRequests' = EmptyMap
          /\ Cardinality(DOMAIN xhrRequests') = 0
          /\ \A s \in SegmentIds : s \notin DOMAIN xhrRequests'
          /\ \A x \in BagToSet(xhrs') : ~x.tracked
          /\ \A x \in BagToSet(xhrs) :
               x.tracked =>
                 IF x.state = "sent"
                 THEN CopiesIn([x EXCEPT !.tracked = FALSE], xhrs')
                        = CopiesIn([x EXCEPT !.tracked = FALSE], xhrs)
                 ELSE CopiesIn([x EXCEPT !.abortedBy = "destroy", !.tracked = FALSE], xhrs')
                        > CopiesIn([x EXCEPT !.abortedBy = "destroy", !.tracked = FALSE], xhrs)
          /\ failedSegments' = failedSegments
          /\ call'.events = <<>>]_vars

C10_Witness ==
    /\ call.op = "destroy"
    /\ failedSegments # EmptyMap
    /\ \E x \in BagToSet(xhrs) : x.abortedBy = "destroy"

\* C11: once destroy() has been called, no segment-loaded and no
\* segment-error is emitted by a request that was in flight at that call
\* (destroy called xhr.abort() on it).
C11_NoEventAfterDestroy ==
    \A i \in 1..Len(call.events) :
        call.events[i].type \in {"segment-loaded", "segment-error"} =>
            call.events[i].afterAbort # "destroy"

\* C13: a download call that starts a request leaves no blacklist entry with an
\* expiry earlier than now, deletes exactly the entries with such an expiry
\* (none for which isFailed is true), and leaves the other entries as they were.
C13_PurgeBeforeDownload ==
    [][call'.op = "download" =>
        \A s \in SegmentIds, p \in Priorities, hookUrl \in HookUrls :
          (~isDownloading(s) /\ Download(s, p, hookUrl)) =>
              /\ \A id \in DOMAIN failedSegments' : failedSegments'[id] >= now'
              /\ call'.purged = (DOMAIN failedSegments) \ (DOMAIN failedSegments')
              /\ \A id \in call'.purged : ~isFailed(id) /\ failedSegments[id] < now
              /\ DOMAIN failedSegments' \subseteq DOMAIN failedSegments
              /\ \A id \in DOMAIN failedSegments' :
                    failedSegments'[id] = failedSegments[id]]_vars

C13_Witness ==
    /\ call.op = "download" /\ call.opened # "none"
    /\ call.purged # {}
    /\ \E id \in DOMAIN failedSegments : failedSegments[id] = now

\* C14: abort(S) followed by download(S) delivers S at most once: when
\* segment-loaded is emitted for S, S is not in flight and no other request
\* for S is left that could deliver S (or fail it) again.
C14_AbortRetryDeliversOnce ==
    \A i \in 1..Len(call.events) :
        call.events[i].type = "segment-loaded" =>
            /\ call.events[i].seg \notin DOMAIN xhrRequests
            /\ \A x \in BagToSet(xhrs) : x.seg # call.events[i].seg

\* C17: download(S) while S is in flight changes nothing and emits nothing,
\* and the in-flight entry of a segment refers to one request object, which no
\* other entry and no second copy shares.
C17_DownloadInFlightNoOp ==
    /\ [](\A s \in SegmentIds :
            LET tracked == {x \in BagToSet(xhrs) : x.seg = s /\ x.tracked}
            IN  /\ Cardinality(tracked) <= 1
                /\ \A x \in tracked : CopiesIn(x, xhrs) = 1
                /\ isDownloading(s) <=> tracked # {})
    /\ [][call'.op = "download" =>
          \A s \in SegmentIds, p \in Priorities, hookUrl \in HookUrls :
            (isDownloading(s) /\ Download(s, p, hookUrl)) =>
                /\ xhrRequests' = xhrRequests
                /\ xhrs' = xhrs
                /\ failedSegments' = failedSegments
                /\ call'.events = <<>> /\ call'.opened = "none"
                /\ call'.requestUrl = "none" /\ call'.purged = {}]_vars

C17_Witness ==
    /\ call.op = "download" /\ call.found
    /\ \E s \in DOMAIN xhrRequests : xhrRequests[s].segmentUrl = "rewritten"

\* C18: a segment is in the in-flight map exactly when a request for it is
\* alive that has not been aborted and has not produced its terminal event;
\* every such request is the one its segment's entry refers to.
C18_InFlightTracksLive ==
    /\ \A x \in BagToSet(xhrs) :
          x.abortedBy = "none" => (x.tracked /\ x.seg \in DOMAIN xhrRequests)
    /\ \A s \in DOMAIN xhrRequests :
          \E x \in BagToSet(xhrs) : x.seg = s /\ x.abortedBy = "none"

\* C19: the blacklist changes only by a failure of a request for S, which
\* sets S's entry to now + httpFailedSegmentTimeout, or by the purge of a
\* download that starts a request, which deletes entries expired before now;
\* every other step, a successful completion included, leaves it unchanged.
C19_BlacklistFrame ==
    [][failedSegments' # failedSegments =>
        \/ /\ call'.op \in FailureOps
           /\ \E s \in SegmentIds :
                /\ ErrorEventFor(call', s)
                /\ failedSegments' =
                     MapSet(failedSegments, s, now + settings.httpFailedSegmentTimeout)
        \/ /\ call'.op \in {"download", "updatePriority"}
           /\ call'.opened # "none"
           /\ call'.purged # {}
           /\ \A id \in call'.purged : failedSegments[id] < now
           /\ failedSegments' =
                [id \in (DOMAIN failedSegments) \ call'.purged |-> failedSegments[id]]]_vars

C19_Witness ==
    \E i \in 1..Len(call.events) :
        /\ call.events[i].type = "segment-loaded"
        /\ isFailed(call.events[i].seg)

\* The requests that are on the network: sent, neither answered nor cancelled.
OnNetwork ==
    BagCardinality([x \in {y \in BagToSet(xhrs) : y.state = "sent"} |-> xhrs[x]])

\* C16: with every download admitted by the Scheduler's ceiling check, the
\* number of direct requests on the network at the same time never exceeds
\* simultaneousHttpDownloads.
C16_CeilingNeverExceeded ==
    OnNetwork <= simultaneousHttpDownloads

\* The positions of the events of a type in a sequence of events.
PositionsOf(events, type) == {i \in 1..Len(events) : events[i].type = type}
Computable(notifications) ==
    {i \in 1..Len(notifications) : notifications[i].lengthComputable}

\* C15 as stated: a request emits at most one segment-size event.
C15_SegmentSizeOnce ==
    Cardinality(PositionsOf(progress.emitted, "segment-size")) <= 1

\* C15 amended: a request emits one bytes-downloaded event per progress
\* notification and one segment-size event for every notification whose length
\* is computable, right after that notification's bytes-downloaded and
\* carrying its total; none when no notification reports the length.
C15_SegmentSizePerProgress ==
    LET emitted == progress.emitted
        notifications == progress.notifications
        sizes == PositionsOf(emitted, "segment-size")
    IN  /\ Cardinality(PositionsOf(emitted, "bytes-downloaded")) = Len(notifications)
        /\ Cardinality(sizes) = Cardinality(Computable(notifications))
        /\ \A i \in sizes :
              /\ i > 1 /\ emitted[i - 1].type = "bytes-downloaded"
              /\ LET n == Cardinality({j \in PositionsOf(emitted, "bytes-downloaded") : j < i})
                 IN  /\ notifications[n].lengthComputable
                     /\ emitted[i].value = notifications[n].total
        /\ Computable(notifications) = {} => sizes = {}

C15_Witness ==
    /\ Cardinality(Computable(progress.notifications)) >= 2
    /\ Cardinality(PositionsOf(progress.emitted, "segment-size")) >= 2
    /\ \E i \in 1..Len(progress.notifications) : ~progress.notifications[i].lengthComputable

\* The chunks of a list one after the other.
RECURSIVE InOrder(_)
InOrder(list) == IF list = <<>> THEN <<>> ELSE Head(list) \o InOrder(Tail(list))

\* A download that resumes: no explicit range, pieces supplied, ranges enabled.
Resuming ==
    /\ resume.phase # "idle"
    /\ resume.range = NoRange /\ resume.downloadedPieces.defined /\ settings.httpUseRanges

\* C12: a resuming download asks for the bytes from the total length of the
\* supplied pieces on; on a 206 response its payload is the supplied pieces in
\* order followed by the new bytes, which is the resource a single non-partial
\* download gives; on any other success status the payload is the response
\* body alone.
C12_ResumeReassembly ==
    /\ Resuming =>
          resume.header = <<"bytes=", Len(InOrder(resume.downloadedPieces.list)), "-">>
    /\ (Resuming /\ resume.phase = "loaded" /\ resume.status = 206) =>
          /\ resume.data = InOrder(resume.downloadedPieces.list) \o resume.response
          /\ resume.data = resume.content
    /\ (resume.phase = "loaded" /\ resume.status # 206) =>
          resume.data = resume.response

C12_Witness ==
    /\ Resuming /\ resume.phase = "loaded" /\ resume.status = 206
    /\ Len(resume.downloadedPieces.list) = 2
    /\ resume.downloadedPieces.list[1] = <<0>>
    /\ resume.downloadedPieces.list[2] = <<1>>
    /\ resume.response # <<>>

\* C20: every 'seeking' event received before a teardown has completed invokes
\* engine.abortCurrentRequest exactly once, and one received after it invokes
\* nothing; 'hlsDestroying' starts engine.destroy() and leaves the seeking
\* handler attached, which is detached exactly once a destroy has resolved.
C20_SeekAbortsUntilTornDown ==
    /\ glue.abortCalls = glue.seekingsBeforeTeardown
    /\ glue.last.event = "seeking" =>
          glue.last.engineCalls =
             IF glue.last.tornDown THEN <<>> ELSE <<"abortCurrentRequest">>
    /\ glue.last.event = "hlsDestroying" =>
          /\ glue.last.engineCalls = <<"destroy">>
          /\ glue.pending > 0
          /\ ~glue.last.tornDown => glue.seekListeners = 1
    /\ glue.tornDown <=> glue.seekListeners = 0

C20_Witness ==
    /\ glue.tornDown
    /\ glue.last.event = "seeking" /\ glue.last.engineCalls = <<>>
    /\ glue.abortCalls >= 1
    /\ glue.started = 2 /\ glue.pending = 1

====
